---------------------------- MODULE Spec2Model ----------------------------
(***************************************************************************)
(* Model of StringTool (main.py): the frame scanner _find_string_pattern,  *)
(* the extraction loop extract_strings and the positional replacement loop *)
(* replace_strings, run by process_files on one .scb buffer.               *)
(*                                                                         *)
(* A buffer is a sequence of bytes 0..255.  Python indexes from 0 and TLA+ *)
(* sequences from 1, so Python's data[i] is data[i + 1] here; offsets      *)
(* (offset, str_start, str_end) keep their Python values.  A text is a     *)
(* sequence of Unicode code points.                                        *)
(***************************************************************************)
EXTENDS Integers, Sequences, FiniteSets, TLC

VARIABLES
    mode,          \* "extract" or "replace": the Mode handed to process_files
    input,         \* the bytes of the .scb file, as read by read_bytes()
    translations,  \* the list loaded from the JSON file (replace mode)
    pc,            \* "loop": inside the while loop; "done": returned; "error": raised
    data,          \* the working buffer (a bytearray in replace_strings)
    offset,        \* the scan cursor
    trans_index,   \* index of the next translation to consume
    results,       \* the records appended by extract_strings
    log,           \* the logger calls made so far, in order
    output,        \* the file written by write_bytes: <<>> or <<bytes>>
    hits,          \* history: the input offset of each frame recorded / rewritten
    applied,       \* history: one record per translation applied
    last           \* history: the kind of the last loop iteration and its cursor

vars == <<mode, input, translations, pc, data, offset, trans_index, results,
          log, output, hits, applied, last>>

-----------------------------------------------------------------------------
(* Bounds of the model and constants of the program *)

\* Number of chunks a generated input buffer is made of.
MaxChunks == 3

\* The marker byte of a frame.
MARKER == 4

\* The largest value a bytearray item may hold.
ByteMax == 255

\* Offset of the payload from the marker.
HeaderLen == 5

-----------------------------------------------------------------------------
(* Text codec: Python's cp932 codec with errors='strict' *)

\* A lead byte of a double-byte character.
IsLead(b) == (b >= 129 /\ b <= 159) \/ (b >= 224 /\ b <= 252)

\* The code point of a single-byte character.
SingleByte(b) ==
    IF b < 128 THEN b
    ELSE IF b = 128 THEN 128
    ELSE IF b = 160 THEN 63728
    ELSE IF b >= 161 /\ b <= 223 THEN 65377 + (b - 161)
    ELSE 63729 + (b - 253)

\* The double-byte characters over the lead bytes 81, 87, 90, E0 and the
\* trail bytes 41, 42, 43, 81, 87, 90, E0 (hex): <<lead, trail, code point>>.
\* 87 90 and 81 E0 both decode to U+2252.
DoubleByteTable ==
    { <<129, 65, 12289>>, <<129, 66, 12290>>, <<129, 67, 65292>>,
      <<129, 129, 65309>>, <<129, 135, 8734>>, <<129, 144, 65284>>,
      <<129, 224, 8786>>,
      <<135, 65, 9313>>, <<135, 66, 9314>>, <<135, 67, 9315>>,
      <<135, 129, 12319>>, <<135, 135, 12966>>, <<135, 144, 8786>>,
      <<144, 65, 26893>>, <<144, 66, 27542>>, <<144, 67, 29165>>,
      <<144, 129, 21561>>, <<144, 135, 30561>>, <<144, 144, 29790>>,
      <<144, 224, 35500>>,
      <<224, 65, 28435>>, <<224, 66, 28407>>, <<224, 67, 28550>>,
      <<224, 129, 28937>>, <<224, 135, 29064>>, <<224, 144, 29077>>,
      <<224, 224, 29669>> }

\* The pairs the encoder never produces: the code point has another encoding.
NonCanonical == { <<135, 144, 8786>> }

DoubleByte(l, t) == { e \in DoubleByteTable : e[1] = l /\ e[2] = t }

RECURSIVE DecodeFrom(_, _, _)
\* bytes.decode('cp932') from position i (1-based) with the text decoded so far:
\* [ok |-> FALSE] is UnicodeDecodeError (an incomplete or illegal sequence).
DecodeFrom(bytes, i, acc) ==
    IF i > Len(bytes) THEN [ok |-> TRUE, text |-> acc]
    ELSE IF ~IsLead(bytes[i])
         THEN DecodeFrom(bytes, i + 1, Append(acc, SingleByte(bytes[i])))
    ELSE IF i = Len(bytes) THEN [ok |-> FALSE, text |-> <<>>]
    ELSE LET m == DoubleByte(bytes[i], bytes[i + 1])
         IN  IF m = {} THEN [ok |-> FALSE, text |-> <<>>]
             ELSE DecodeFrom(bytes, i + 2, Append(acc, (CHOOSE e \in m : TRUE)[3]))

Decode(bytes) == DecodeFrom(bytes, 1, <<>>)

\* The bytes of one code point; <<>> with ok FALSE is UnicodeEncodeError.
EncodeChar(cp) ==
    IF cp < 128 THEN [ok |-> TRUE, bytes |-> <<cp>>]
    ELSE IF cp = 128 THEN [ok |-> TRUE, bytes |-> <<128>>]
    ELSE IF cp >= 65377 /\ cp <= 65439 THEN [ok |-> TRUE, bytes |-> <<161 + (cp - 65377)>>]
    ELSE IF cp = 63728 THEN [ok |-> TRUE, bytes |-> <<160>>]
    ELSE IF cp >= 63729 /\ cp <= 63731 THEN [ok |-> TRUE, bytes |-> <<253 + (cp - 63729)>>]
    ELSE LET m == { e \in DoubleByteTable \ NonCanonical : e[3] = cp }
         IN  IF m = {} THEN [ok |-> FALSE, bytes |-> <<>>]
             ELSE LET e == CHOOSE x \in m : TRUE
                  IN  [ok |-> TRUE, bytes |-> <<e[1], e[2]>>]

RECURSIVE EncodeRange(_, _, _)
\* The encoding of text[lo..hi]: each character is encoded on its own and the
\* results are joined in order; any character that fails makes the whole fail.
\* (Halving keeps the evaluation shallow on long texts.)
EncodeRange(text, lo, hi) ==
    IF lo > hi THEN [ok |-> TRUE, bytes |-> <<>>]
    ELSE IF lo = hi THEN EncodeChar(text[lo])
    ELSE LET mid == (lo + hi) \div 2
             l == EncodeRange(text, lo, mid)
             r == EncodeRange(text, mid + 1, hi)
         IN  IF l.ok /\ r.ok THEN [ok |-> TRUE, bytes |-> l.bytes \o r.bytes]
             ELSE [ok |-> FALSE, bytes |-> <<>>]

\* str.encode('cp932')
Encode(text) == EncodeRange(text, 1, Len(text))

-----------------------------------------------------------------------------
(* The frame scanner *)

\* Python's data[a:b] for 0 <= a and b <= len(data).
Slice(d, a, b) == SubSeq(d, a + 1, b)

RECURSIVE ScanTerminator(_, _)
\* The while loop of _find_string_pattern: the first index at or after
\* str_end holding a zero byte, or len(data) when there is none.
ScanTerminator(d, str_end) ==
    IF str_end < Len(d) /\ d[str_end + 1] # 0
    THEN ScanTerminator(d, str_end + 1)
    ELSE str_end

NoMatch == [valid |-> FALSE, length |-> 0, str_start |-> 0, str_end |-> 0]

\* _find_string_pattern(data, offset)
FindStringPattern(d, off) ==
    IF off + HeaderLen >= Len(d) THEN NoMatch
    ELSE IF d[off + 1] # MARKER \/ Slice(d, off + 2, off + 5) # <<0, 0, 0>> THEN NoMatch
    ELSE LET specified_length == d[off + 2]
             str_start == off + HeaderLen
             str_end == ScanTerminator(d, str_start)
             actual_length == (str_end - str_start) + 1
         IN  IF actual_length # specified_length THEN NoMatch
             ELSE [valid |-> TRUE, length |-> specified_length,
                   str_start |-> str_start, str_end |-> str_end]

-----------------------------------------------------------------------------
(* extract_strings *)

LogEntry(kind, a, b) == [kind |-> kind, a |-> a, b |-> b]

\* One iteration of the while loop of extract_strings on the loop state
\* st = [offset, results, hits, log] (hits: the offset of each recorded frame).
ExtractIter(d, st) ==
    LET m == FindStringPattern(d, st.offset)
        dec == Decode(Slice(d, m.str_start, m.str_end))
    IN  IF m.valid /\ dec.ok
        THEN [offset |-> m.str_end + 1,
              results |-> Append(st.results, [orig |-> dec.text, trans |-> dec.text]),
              hits |-> Append(st.hits, st.offset),
              log |-> st.log]
        ELSE IF m.valid
        THEN [st EXCEPT !.offset = @ + 1,
                        !.log = Append(@, LogEntry("decode_failed", m.str_start, 0))]
        ELSE [st EXCEPT !.offset = @ + 1]

RECURSIVE ExtractLoop(_, _)
ExtractLoop(d, st) ==
    IF st.offset < Len(d) THEN ExtractLoop(d, ExtractIter(d, st)) ELSE st

ExtractStart == [offset |-> 0, results |-> <<>>, hits |-> <<>>, log |-> <<>>]

\* extract_strings(file): the list of {'orig', 'trans'} records.
extract_strings(d) == ExtractLoop(d, ExtractStart).results

\* The offsets of the frames extract_strings records, in order.
ExtractHits(d) == ExtractLoop(d, ExtractStart).hits

-----------------------------------------------------------------------------
(* replace_strings: the current iteration *)

Match == FindStringPattern(data, offset)

\* old_str: the decoded payload of the matched frame.
OldStr == Decode(Slice(data, Match.str_start, Match.str_end))

\* trans_entry
Entry == translations[trans_index + 1]

\* new_bytes and new_len
NewBytes == Encode(Entry.trans)

NewLen == Len(NewBytes.bytes) + 1

\* data[str_start:str_end] = new_bytes on a bytearray: the slice is replaced
\* by new_bytes and what follows it moves.
SliceAssign(d, a, b, new_bytes) ==
    Slice(d, 0, a) \o new_bytes \o Slice(d, b, Len(d))

\* data[i] = v on a bytearray, for v in range(0, 256).
SetByte(d, i, v) == [d EXCEPT ![i + 1] = v]

\* WriteFrame with the slice one byte too long: the terminator is replaced too.
WriteFrameEatsTerminator(d, off, m, new_bytes) ==
    SliceAssign(SetByte(d, off + 1, Len(new_bytes) + 1),
                m.str_start, IF m.str_end < Len(d) THEN m.str_end + 1 ELSE m.str_end,
                new_bytes)

\* WriteFrame copying the new bytes over the buffer from the payload offset on,
\* without moving what follows.
WriteFrameInPlace(d, off, m, new_bytes) ==
    LET e == m.str_start + Len(new_bytes)
    IN  SliceAssign(SetByte(d, off + 1, Len(new_bytes) + 1),
                    m.str_start, IF e < Len(d) THEN e ELSE Len(d), new_bytes)

\* The two writes of an applied translation: the length byte, then the payload.
WriteFrame(d, off, m, new_bytes) ==
    SliceAssign(SetByte(d, off + 1, Len(new_bytes) + 1), m.str_start, m.str_end, new_bytes)

\* NextOffset computed from the old terminator, as extract_strings does.
NextOffsetStale(m, new_len) == m.str_end + 1

\* The cursor after an applied translation.
NextOffset(m, new_len) == m.str_start + new_len

\* Advance leaving the cursor where it is.
AdvanceStuck(off, m) == off

\* Advance jumping over a matched frame that was not applied.
AdvancePastFrame(off, m) == IF m.valid THEN m.str_end + 1 ELSE off + 1

\* The cursor after an iteration that applied nothing.
Advance(off, m) == off + 1

\* The loop condition of replace_strings.
ReplaceCond == offset < Len(data) /\ trans_index < Len(translations)

InReplace == mode = "replace" /\ pc = "loop"

\* Expected without the comparison with the current slot's 'orig'.
ExpectedAnyText == Match.valid /\ OldStr.ok

\* The frame at the cursor matches, decodes, and is the one the current slot expects.
Expected == Match.valid /\ OldStr.ok /\ Entry.orig = OldStr.text

-----------------------------------------------------------------------------
(* Inputs: the files process_files finds *)

\* A well-formed frame holding the given payload bytes.
FrameOf(payload) == <<MARKER, Len(payload) + 1, 0, 0, 0>> \o payload \o <<0>>

TextA == <<65>>
TextB == <<66>>
TextC == <<67>>
\* A translation longer than its original: U+2252 (two bytes) is added.
Longer(orig) == Append(orig, 8786)
\* Ten single-byte characters.
TextTen == [i \in 1..10 |-> 68]
\* 255 single-byte characters: one more than a length byte can describe.
TextTooLong == [i \in 1..ByteMax |-> 69]
\* 254 single-byte characters: the longest text a length byte can describe.
TextMaxLen == [i \in 1..(ByteMax - 1) |-> 69]
\* U+00E9, which cp932 cannot encode.
TextUnencodable == <<233>>
\* "A", U+0000, "B": cp932 encodes U+0000 as the byte 00.
TextWithNul == <<65, 0, 66>>
\* A text no frame of the inputs holds.
TextMissing == <<90>>

Junk == <<1>>
FrameA == FrameOf(<<65>>)
FrameB == FrameOf(<<66>>)
FrameC == FrameOf(<<67>>)
\* Payload 87 90: decodes to U+2252, which encodes to 81 E0.
FrameX == FrameOf(<<135, 144>>)
\* A matched frame whose payload 81 04 02 does not decode, and inside it,
\* from its sixth byte on, the frame of "A".
Nested == <<MARKER, 4, 0, 0, 0, 129>> \o FrameA
\* Marker, length 2, reserved bytes, one payload byte and no terminator.
Unterminated == <<MARKER, 2, 0, 0, 0, 65>>
\* Declared length 5, payload and terminator 4.
BadLength == <<MARKER, 5, 0, 0, 0, 65, 66, 67, 0>>

Chunks == <<Junk, FrameA, FrameX, Nested>>

RECURSIVE Concat(_, _)
Concat(choice, i) ==
    IF i > Len(choice) THEN <<>> ELSE Chunks[choice[i]] \o Concat(choice, i + 1)

\* Every concatenation of at most MaxChunks chunks.
ChunkBuffers ==
    { Concat(c, 1) : c \in UNION { [1..n -> 1..Len(Chunks)] : n \in 0..MaxChunks } }

\* Buffers of the documented examples: a repeated text between two others,
\* a rejected frame followed by a real one, a three-byte original, a frame
\* with an empty text, a frame with a private-use character; and buffers
\* holding a frame that lacks its terminator.
GatingBuffer == FrameA \o FrameB \o FrameA \o FrameC
RejectBuffer == BadLength \o FrameA
OverflowBuffer == Junk \o FrameOf(<<65, 66, 67>>) \o Junk \o Junk
EmptyTextBuffer == FrameOf(<<>>) \o FrameA
\* A frame whose payload is the single byte A0, which decodes to U+F8F0.
PrivateUseBuffer == FrameOf(<<160>>)

ExampleBuffers ==
    { GatingBuffer, RejectBuffer, OverflowBuffer, EmptyTextBuffer,
      PrivateUseBuffer,
      Unterminated,
      FrameA \o Unterminated,
      Unterminated \o FrameA,
      Junk \o FrameX \o Nested \o Unterminated }

Buffers == ChunkBuffers \cup ExampleBuffers

\* The translation of one extracted text: kept, emptied or made longer.
TransChoice(orig, k) ==
    CASE k = 0 -> orig
      [] k = 1 -> <<>>
      [] OTHER -> Longer(orig)

RemoveAt(s, j) == SubSeq(s, 1, j - 1) \o SubSeq(s, j + 1, Len(s))

\* The extracted list e with every 'trans' made longer.
AllLonger(e) == [i \in 1..Len(e) |-> [orig |-> e[i].orig, trans |-> Longer(e[i].orig)]]

\* Translation lists a translator may hand back for the extracted list e:
\* every slot's 'trans' kept, emptied or made longer; one 'trans' replaced
\* by a special text; and translated lists out of step with the file (an
\* 'orig' no frame holds, an entry removed, two entries swapped, one added).
TranslationLists(e) ==
    LET n == Len(e)
        t == AllLonger(e)
    IN  { [i \in 1..n |-> [orig |-> e[i].orig, trans |-> TransChoice(e[i].orig, c[i])]] :
            c \in [1..n -> 0..2] }
        \cup { [e EXCEPT ![j].trans = x] :
                 j \in 1..n, x \in {TextTen, TextMaxLen, TextTooLong, TextUnencodable,
                                             TextWithNul} }
        \cup { [t EXCEPT ![j].orig = TextMissing] : j \in 1..n }
        \cup { RemoveAt(t, j) : j \in 1..n }
        \cup { [t EXCEPT ![j] = t[j + 1], ![j + 1] = t[j]] : j \in 1..(n - 1) }
        \cup { Append(t, [orig |-> TextMissing, trans |-> Longer(TextMissing)]) }

NoLast == [kind |-> "start", offset |-> 0, trans_index |-> 0]

Init ==
    /\ input \in Buffers
    /\ mode \in {"extract", "replace"}
    /\ translations \in IF mode = "extract" THEN {<<>>}
                        ELSE TranslationLists(extract_strings(input))
    /\ pc = "loop"
    /\ data = input
    /\ offset = 0
    /\ trans_index = 0
    /\ results = <<>>
    /\ log = <<>>
    /\ output = <<>>
    /\ hits = <<>>
    /\ applied = <<>>
    /\ last = NoLast

-----------------------------------------------------------------------------
(* extract_strings, one loop iteration per step *)

InExtract == mode = "extract" /\ pc = "loop"

ExtractState == [offset |-> offset, results |-> results, hits |-> hits, log |-> log]

ExtractAdvance(kind) ==
    LET st == ExtractIter(data, ExtractState)
    IN  /\ offset' = st.offset
        /\ results' = st.results
        /\ hits' = st.hits
        /\ log' = st.log
        /\ last' = [kind |-> kind, offset |-> offset, trans_index |-> 0]
        /\ UNCHANGED <<mode, input, translations, pc, data, trans_index, output, applied>>

\* A frame matches and decodes: it is recorded and the cursor passes its terminator.
ExtractRecord ==
    /\ InExtract /\ offset < Len(data)
    /\ Match.valid /\ OldStr.ok
    /\ ExtractAdvance("record")

\* A frame matches and does not decode: a warning, and the cursor moves by one.
ExtractDecodeFail ==
    /\ InExtract /\ offset < Len(data)
    /\ Match.valid /\ ~OldStr.ok
    /\ ExtractAdvance("decode_failed")

\* No frame at the cursor.
ExtractNoMatch ==
    /\ InExtract /\ offset < Len(data)
    /\ ~Match.valid
    /\ ExtractAdvance("no_match")

\* The cursor reached the end: return results.
ExtractReturn ==
    /\ InExtract /\ ~(offset < Len(data))
    /\ pc' = "done"
    /\ last' = [kind |-> "return", offset |-> offset, trans_index |-> 0]
    /\ UNCHANGED <<mode, input, translations, data, offset, trans_index, results,
                   log, output, hits, applied>>

-----------------------------------------------------------------------------
(* replace_strings, one loop iteration per step *)

Mark(kind) == last' = [kind |-> kind, offset |-> offset, trans_index |-> trans_index]

\* The expected frame, an encodable translation that fits the length byte:
\* the frame is rewritten and the slot consumed.
ReplaceApply ==
    /\ InReplace /\ ReplaceCond /\ Expected
    /\ NewBytes.ok /\ NewLen <= ByteMax
    /\ data' = WriteFrame(data, offset, Match, NewBytes.bytes)
    /\ offset' = NextOffset(Match, NewLen)
    /\ trans_index' = trans_index + 1
    /\ log' = IF NewLen > Match.length
              THEN Append(log, LogEntry("overflow", NewLen, Match.length))
              ELSE log
    /\ applied' = Append(applied,
                    [slot |-> trans_index,
                     at |-> offset,
                     source |-> offset - (Len(data) - Len(input)),
                     old_len |-> Match.length,
                     new_bytes |-> NewBytes.bytes])
    /\ Mark("apply")
    /\ UNCHANGED <<mode, input, translations, pc, results, output, hits>>

\* The translation cannot be encoded: encode() raises UnicodeEncodeError,
\* process_files logs the error and nothing is written.
ReplaceEncodeError ==
    /\ InReplace /\ ReplaceCond /\ Expected
    /\ ~NewBytes.ok
    /\ pc' = "error"
    /\ log' = Append(log, LogEntry("error_encode", trans_index, 0))
    /\ Mark("error")
    /\ UNCHANGED <<mode, input, translations, data, offset, trans_index, results,
                   output, hits, applied>>

\* ReplaceLengthError storing new_len cut to one byte and going on.
ReplaceLengthTruncated ==
    /\ InReplace /\ ReplaceCond /\ Expected
    /\ NewBytes.ok /\ NewLen > ByteMax
    /\ data' = SliceAssign(SetByte(data, offset + 1, NewLen % (ByteMax + 1)),
                           Match.str_start, Match.str_end, NewBytes.bytes)
    /\ offset' = NextOffset(Match, NewLen)
    /\ trans_index' = trans_index + 1
    /\ log' = Append(log, LogEntry("overflow", NewLen, Match.length))
    /\ Mark("apply")
    /\ UNCHANGED <<mode, input, translations, pc, results, output, hits, applied>>

\* new_len is over 255: the warning is logged, then the store into the
\* bytearray raises ValueError; process_files logs the error, nothing is written.
ReplaceLengthError ==
    /\ InReplace /\ ReplaceCond /\ Expected
    /\ NewBytes.ok /\ NewLen > ByteMax
    /\ pc' = "error"
    /\ log' = log \o <<LogEntry("overflow", NewLen, Match.length),
                       LogEntry("error_value", trans_index, NewLen)>>
    /\ Mark("error")
    /\ UNCHANGED <<mode, input, translations, data, offset, trans_index, results,
                   output, hits, applied>>

\* ReplaceMismatch giving up on the current slot.
ReplaceMismatchSkipsSlot ==
    /\ InReplace /\ ReplaceCond
    /\ Match.valid /\ OldStr.ok /\ Entry.orig # OldStr.text
    /\ offset' = Advance(offset, Match)
    /\ trans_index' = trans_index + 1
    /\ Mark("mismatch")
    /\ UNCHANGED <<mode, input, translations, pc, data, results, log,
                   output, hits, applied>>

\* A frame that decodes to another text than the current slot's 'orig'.
ReplaceMismatch ==
    /\ InReplace /\ ReplaceCond
    /\ Match.valid /\ OldStr.ok /\ Entry.orig # OldStr.text
    /\ offset' = Advance(offset, Match)
    /\ Mark("mismatch")
    /\ UNCHANGED <<mode, input, translations, pc, data, trans_index, results, log,
                   output, hits, applied>>

\* A frame whose payload does not decode.
ReplaceDecodeFail ==
    /\ InReplace /\ ReplaceCond
    /\ Match.valid /\ ~OldStr.ok
    /\ offset' = Advance(offset, Match)
    /\ log' = Append(log, LogEntry("decode_failed", Match.str_start, 0))
    /\ Mark("decode_failed")
    /\ UNCHANGED <<mode, input, translations, pc, data, trans_index, results,
                   output, hits, applied>>

\* No frame at the cursor.
ReplaceNoMatch ==
    /\ InReplace /\ ReplaceCond
    /\ ~Match.valid
    /\ offset' = Advance(offset, Match)
    /\ Mark("no_match")
    /\ UNCHANGED <<mode, input, translations, pc, data, trans_index, results, log,
                   output, hits, applied>>

\* The loop is over: the unused translations are reported and the buffer written.
ReplaceFinish ==
    /\ InReplace /\ ~ReplaceCond
    /\ log' = IF trans_index < Len(translations)
              THEN Append(log, LogEntry("remaining", Len(translations) - trans_index, 0))
              ELSE log
    /\ output' = <<data>>
    /\ pc' = "done"
    /\ Mark("finish")
    /\ UNCHANGED <<mode, input, translations, data, offset, trans_index, results,
                   hits, applied>>

Next ==
    \/ ExtractRecord
    \/ ExtractDecodeFail
    \/ ExtractNoMatch
    \/ ExtractReturn
    \/ ReplaceApply
    \/ ReplaceEncodeError
    \/ ReplaceLengthError
    \/ ReplaceMismatch
    \/ ReplaceDecodeFail
    \/ ReplaceNoMatch
    \/ ReplaceFinish

Spec == Init /\ [][Next]_vars

-----------------------------------------------------------------------------
(* Properties *)

Replaced == mode = "replace" /\ pc = "done"

\* The translation list is the extracted list with 'orig' untouched and
\* every 'trans' a text that encodes and fits one length byte.
InStep ==
    LET e == extract_strings(input)
    IN  /\ mode = "replace"
        /\ Len(translations) = Len(e)
        /\ \A i \in 1..Len(e) :
              /\ translations[i].orig = e[i].orig
              /\ Encode(translations[i].trans).ok
              /\ Len(Encode(translations[i].trans).bytes) + 1 <= ByteMax

\* C1: replacing with the list extract_strings returned for the same buffer,
\* every 'trans' left equal to its 'orig', writes the input back byte for byte.
RoundTripIdentity ==
    (Replaced /\ translations = extract_strings(input)) => output = <<input>>

\* C2: when the list's 'orig' fields are the extracted texts in order and the
\* 'trans' fields fit, the run raises nothing, the applied frames are at
\* strictly increasing offsets, the N-th applied frame is the frame that gave
\* the N-th extracted record and received the N-th translation, and at the end
\* every translation is consumed.  (The applied list and pc change only in the
\* iterations named first, so the other states have nothing new to check.)
LockStep ==
    (last.kind \in {"apply", "finish", "error"} /\ InStep) =>
        /\ pc # "error"
        /\ Len(applied) = trans_index
        /\ \A i \in 1..Len(applied) :
              /\ applied[i].slot = i - 1
              /\ applied[i].source = ExtractHits(input)[i]
              /\ applied[i].new_bytes = Encode(translations[i].trans).bytes
              /\ i > 1 => applied[i - 1].at < applied[i].at
        /\ pc = "done" => trans_index = Len(translations)

\* Two frames and more were rewritten, one of them to another length, in step.
LockStepWitness ==
    /\ InStep /\ pc = "done"
    /\ Len(applied) >= 2
    /\ Len(data) # Len(input)
    /\ \E i \in 1..Len(translations) : translations[i].trans # translations[i].orig


\* The current iteration meets a frame that decodes to another text than the
\* current slot's 'orig'.
AtOtherText ==
    /\ InReplace /\ ReplaceCond
    /\ Match.valid /\ OldStr.ok /\ Entry.orig # OldStr.text

GatingList ==
    << [orig |-> TextA, trans |-> Longer(TextA)],
       [orig |-> TextB, trans |-> Longer(TextB)],
       [orig |-> TextC, trans |-> Longer(TextC)] >>

GatingRun == Replaced /\ input = GatingBuffer /\ translations = GatingList

\* C3: a matched frame whose text is not the current slot's 'orig' is left as
\* it is and consumes no slot (cursor + 1, trans_index unchanged), whatever the
\* other slots hold; on frames A, B, A, C with translations for A, B, C the
\* second A frame is not rewritten and the third translation goes to C.
PositionalGating ==
    [][ /\ AtOtherText =>
            /\ data' = data
            /\ trans_index' = trans_index
            /\ applied' = applied
            /\ offset' = offset + 1
        /\ GatingRun' =>
            output' = << FrameOf(Encode(Longer(TextA)).bytes)
                         \o FrameOf(Encode(Longer(TextB)).bytes)
                         \o FrameA
                         \o FrameOf(Encode(Longer(TextC)).bytes) >>
      ]_vars

\* The run on A, B, A, C is over: three translations applied, the third one to
\* the fourth frame, after the second A frame was passed over.
PositionalGatingWitness ==
    /\ GatingRun
    /\ Len(applied) = 3
    /\ applied[3].source = Len(FrameA \o FrameB \o FrameA)
    /\ applied[3].new_bytes = Encode(Longer(TextC)).bytes

RECURSIVE Rebuild(_, _, _)
\* The input with, for each of the first k applied records (last first), the
\* length byte and the payload of the frame at its source offset replaced,
\* and every other byte kept where it stands relative to the others.
Rebuild(inp, app, k) ==
    IF k = 0 THEN inp
    ELSE LET a == app[k]
             payload_start == a.source + HeaderLen
             payload_end == payload_start + (a.old_len - 1)
         IN  Rebuild(Slice(inp, 0, a.source + 1)
                       \o <<Len(a.new_bytes) + 1>>
                       \o Slice(inp, a.source + 2, payload_start)
                       \o a.new_bytes
                       \o Slice(inp, payload_end, Len(inp)),
                     app, k - 1)

\* C4: the output is the input with only the length byte and the payload of
\* each frame a translation was applied to replaced; every other input byte
\* is in the output, with its value, in the same order.
StructurePreserved ==
    Replaced =>
        /\ \A i \in 1..Len(applied) :
              /\ FindStringPattern(input, applied[i].source).valid
              /\ FindStringPattern(input, applied[i].source).length = applied[i].old_len
        /\ output = << Rebuild(input, applied, Len(applied)) >>

\* A run that rewrote a frame to another length and passed over a matched
\* frame it could not decode.
StructurePreservedWitness ==
    /\ Replaced
    /\ Len(applied) >= 1
    /\ Len(output[1]) # Len(input)
    /\ \E i \in 1..Len(log) : log[i].kind = "decode_failed"

\* The loop is about to call the scanner at the cursor.
Scanning ==
    /\ pc = "loop"
    /\ offset < Len(data)
    /\ mode = "replace" => trans_index < Len(translations)

\* C5: the scanner reports a match only for marker 04, three zero reserved
\* bytes, a zero terminator inside the buffer with no zero before it in the
\* payload, and a length byte equal to payload length + 1.
ScannerSound ==
    (Scanning /\ Match.valid) =>
        /\ data[offset + 1] = MARKER
        /\ data[offset + 3] = 0 /\ data[offset + 4] = 0 /\ data[offset + 5] = 0
        /\ Match.str_start = offset + HeaderLen
        /\ Match.str_end < Len(data)
        /\ data[Match.str_end + 1] = 0
        /\ \A i \in Match.str_start..(Match.str_end - 1) : data[i + 1] # 0
        /\ (Match.str_end - Match.str_start) + 1 = data[offset + 2]

\* The last applied record, when the last iteration applied a translation
\* longer than the frame's declared length.
Overflowed ==
    /\ mode = "replace" /\ last.kind = "apply"
    /\ Len(applied[Len(applied)].new_bytes) + 1 > applied[Len(applied)].old_len

\* C6: after an overflowing translation is applied (new_len over the declared
\* length, at most 255) a warning is logged, nothing is raised, the length
\* byte holds new_len, the new_len bytes from the payload offset are the
\* encoded translation and a zero terminator, and the slot is consumed.
OverflowNonFatal ==
    Overflowed =>
        LET a == applied[Len(applied)]
            new_len == Len(a.new_bytes) + 1
        IN  /\ pc = "loop"
            /\ log # <<>> /\ log[Len(log)] = LogEntry("overflow", new_len, a.old_len)
            /\ data[a.at + 2] = new_len
            /\ a.at + HeaderLen + new_len <= Len(data)
            /\ Slice(data, a.at + HeaderLen, a.at + HeaderLen + new_len) = a.new_bytes \o <<0>>
            /\ trans_index = a.slot + 1


RECURSIVE Growth(_, _)
\* The sum, over the first k applied records, of new_len - declared length.
Growth(app, k) ==
    IF k = 0 THEN 0
    ELSE Growth(app, k - 1) + ((Len(app[k].new_bytes) + 1) - app[k].old_len)

\* The current iteration applies a translation.
Applying ==
    /\ InReplace /\ ReplaceCond /\ Expected
    /\ NewBytes.ok /\ NewLen <= ByteMax

\* C7 as stated: an overflowing translation overwrites the bytes after the
\* frame without moving them, so the output is as long as the input whenever
\* no applied translation is shorter than its slot.
SameLengthOnOverflow ==
    (Replaced /\ \A i \in 1..Len(applied) :
                    Len(applied[i].new_bytes) + 1 >= applied[i].old_len)
        => Len(output[1]) = Len(input)

\* C7, amended: an applied translation replaces the old payload only; what
\* came before the payload (but the length byte) stays, what followed it (the
\* terminator and every later byte) is kept and moved by new_len - old_len,
\* and the output's length is the input's plus the sum of these differences.
PayloadSpliced ==
    [][ /\ Applying =>
            /\ Len(data') = Len(data) + (NewLen - Match.length)
            /\ Slice(data', 0, offset + 1) = Slice(data, 0, offset + 1)
            /\ Slice(data', offset + 2, Match.str_start)
                 = Slice(data, offset + 2, Match.str_start)
            /\ Slice(data', Match.str_start, Match.str_start + (NewLen - 1))
                 = NewBytes.bytes
            /\ Slice(data', Match.str_start + (NewLen - 1), Len(data'))
                 = Slice(data, Match.str_end, Len(data))
        /\ Replaced' => Len(output'[1]) = Len(input) + Growth(applied', Len(applied'))
      ]_vars

\* An overflowing translation was applied to a frame that had bytes after it,
\* and the output is longer than the input.
PayloadSplicedWitness ==
    /\ Replaced
    /\ Len(output[1]) > Len(input)
    /\ \E i \in 1..Len(applied) :
          /\ Len(applied[i].new_bytes) + 1 > applied[i].old_len
          /\ applied[i].source + HeaderLen + applied[i].old_len < Len(input)

\* No frame at or after the cursor decodes to the current slot's 'orig'.
Stuck ==
    /\ InReplace
    /\ trans_index < Len(translations)
    /\ \A o \in offset..(Len(data) - 1) :
          LET m == FindStringPattern(data, o)
              dec == Decode(Slice(data, m.str_start, m.str_end))
          IN  ~(m.valid /\ dec.ok /\ dec.text = Entry.orig)

\* C8: slots are consumed one at a time in list order; once no frame at or
\* after the cursor holds the current slot's 'orig' the run goes on without
\* error to the end of the buffer, consuming and changing nothing more; a run
\* that ends at slot k < len(translations) reports len(translations) - k
\* remaining and writes the buffer with translations 0..k-1 applied, only them.
PartialApplication ==
    [][ /\ trans_index' \in {trans_index, trans_index + 1}
        /\ Len(applied') = trans_index'
        /\ \A i \in 1..Len(applied') : applied'[i].slot = i - 1
        /\ Stuck =>
            /\ pc' # "error"
            /\ trans_index' = trans_index
            /\ data' = data
            /\ pc' = "loop" => Stuck'
            /\ pc' = "done" => offset >= Len(data)
        /\ (Replaced' /\ trans_index' < Len(translations)) =>
            /\ offset' >= Len(data')
            /\ log' # <<>>
            /\ log'[Len(log')]
                 = LogEntry("remaining", Len(translations) - trans_index', 0)
            /\ output' = << Rebuild(input, applied', trans_index') >>
      ]_vars

\* A run that applied some translations, then met a slot no frame answers,
\* and wrote the partly translated buffer.
PartialApplicationWitness ==
    /\ Replaced
    /\ trans_index > 0
    /\ trans_index < Len(translations)
    /\ output = <<data>>
    /\ data # input
    /\ log[Len(log)].kind = "remaining"

\* The current slot's translation needs a length byte over 255.
TooLongHere ==
    /\ InReplace /\ ReplaceCond /\ Expected
    /\ NewBytes.ok /\ NewLen > ByteMax

\* C9: when new_len is over 255 the step raises: the length byte and the
\* payload keep their values, no slot is consumed, nothing is written; and no
\* step ever stores a length byte other than the new_len it computed.
OneByteLengthGuard ==
    [][ /\ TooLongHere =>
            /\ pc' = "error"
            /\ data' = data
            /\ trans_index' = trans_index
            /\ output' = <<>>
        /\ (InReplace /\ data' # data) =>
            /\ data'[offset + 2] = NewLen
            /\ NewLen <= ByteMax
        /\ pc' = "error" => output' = <<>>
      ]_vars

\* The run stopped on the ValueError raised for new_len = 256.
OneByteLengthGuardWitness ==
    /\ mode = "replace" /\ pc = "error"
    /\ log[Len(log)] = LogEntry("error_value", trans_index, ByteMax + 1)
    /\ output = <<>>

\* The scanner matched a frame at the cursor whose payload does not decode.
UndecodableHere == Scanning /\ Match.valid /\ ~OldStr.ok

\* C10: on a matched frame that does not decode, extract_strings appends no
\* record, replace_strings consumes no slot and leaves the buffer as it is,
\* and in both the cursor moves by exactly one byte and the loop goes on.
DecodeFailureSkips ==
    [][ UndecodableHere =>
            /\ results' = results
            /\ trans_index' = trans_index
            /\ data' = data
            /\ applied' = applied
            /\ offset' = offset + 1
            /\ pc' = "loop"
      ]_vars

\* A replace run passed an undecodable frame and then rewrote the frame that
\* starts one byte into its payload, before its terminator.
DecodeFailureSkipsWitness ==
    /\ Replaced
    /\ \E i \in 1..Len(log), j \in 1..Len(applied) :
          /\ log[i].kind = "decode_failed"
          /\ applied[j].at = log[i].a + 1


\* A step that completes one iteration of a loop and stays in it.
Iteration == pc = "loop" /\ pc' = "loop"

\* What the cursor and the slot index do over one completed iteration.
Progress ==
    Iteration =>
        /\ offset' > offset
        /\ trans_index' >= trans_index
        /\ trans_index' <= Len(translations)
        /\ mode = "replace" => Len(data') - offset' < Len(data) - offset

\* C11 as stated: the cursor grows on every iteration, trans_index never
\* decreases nor passes len(translations), the bytes left after the cursor
\* decrease on every iteration of replace_strings, and the replace loop is
\* left exactly when the cursor has exhausted the buffer or every translation
\* is consumed.
ExitsOnlyOnLoopCondition ==
    [][ /\ Progress
        /\ (InReplace /\ pc' # "loop") =>
              (offset >= Len(data) \/ trans_index >= Len(translations))
        /\ (InReplace /\ ~ReplaceCond) => pc' # "loop"
      ]_vars

\* C11, amended: both loops terminate (an iteration runs only while bytes are
\* left after the cursor, and each one leaves strictly fewer, so a buffer of n
\* bytes allows at most n iterations; a loop that was left is not entered
\* again), with the same progress on every iteration; the replace loop is left
\* normally exactly when the cursor has exhausted the buffer or every
\* translation is consumed, and otherwise only by the exception raised, before
\* anything is changed, when the current slot's translation cannot be encoded
\* or needs a length byte over 255; the extract loop is left exactly when the
\* cursor reaches the end.
LoopsTerminate ==
    [][ /\ Progress
        /\ Iteration =>
             /\ Len(data) - offset > 0
             /\ Len(data') - offset' < Len(data) - offset
        /\ pc # "loop" => pc' = pc
        /\ InReplace =>
             /\ pc' = "done" <=> ~ReplaceCond
             /\ pc' = "error" <=>
                  (ReplaceCond /\ Expected /\ (~NewBytes.ok \/ NewLen > ByteMax))
             /\ pc' = "error" =>
                  (data' = data /\ offset' = offset /\ trans_index' = trans_index)
        /\ InExtract => (pc' = "done" <=> offset >= Len(data))
      ]_vars

\* A replace run that shortened the buffer, skipped bytes, and left the loop
\* with every translation consumed before the cursor reached the end.
LoopsTerminateWitness ==
    /\ Replaced
    /\ Len(data) < Len(input)
    /\ trans_index = Len(translations)
    /\ offset < Len(data)
    /\ offset > Len(applied) * (HeaderLen + 1)

\* The bytes of d from offset at on are a frame of the format holding payload:
\* marker, length byte, three zero bytes, the payload with no zero byte in it,
\* and the zero byte that ends it, all inside d.
ValidFrameAt(d, at, payload) ==
    /\ at + HeaderLen + Len(payload) < Len(d)
    /\ d[at + 1] = MARKER
    /\ d[at + 2] = Len(payload) + 1
    /\ Slice(d, at + 2, at + 5) = <<0, 0, 0>>
    /\ Slice(d, at + HeaderLen, at + HeaderLen + Len(payload)) = payload
    /\ \A i \in 1..Len(payload) : payload[i] # 0
    /\ d[at + HeaderLen + Len(payload) + 1] = 0

\* The 'orig' texts of a record list, in order.
OrigTexts(e) == [i \in 1..Len(e) |-> e[i].orig]

\* The 'trans' texts of a record list, in order.
TransTexts(e) == [i \in 1..Len(e) |-> e[i].trans]

\* C12: when the list's 'orig' fields are the extracted texts in order and
\* every 'trans' encodes to at most 254 bytes, each frame replace_strings
\* rewrote is a valid frame of the written buffer, and extract_strings on the
\* written buffer returns exactly the 'trans' texts in order.
ReExtraction ==
    (Replaced /\ InStep) =>
        /\ \A k \in 1..Len(applied) :
              ValidFrameAt(data, applied[k].at, applied[k].new_bytes)
        /\ OrigTexts(extract_strings(data)) = TransTexts(translations)

=============================================================================
